---- MODULE Spec2Model ----
(***************************************************************************)
(* Model of BacktestEngine (src/src/backtesting/backtest_engine.py).       *)
(*                                                                         *)
(* Numbers: the engine computes with Python floats.  They are modelled as  *)
(* exact rationals [n |-> numerator, d |-> denominator] in lowest terms    *)
(* with d > 0, so equality of two numbers is equality of the records.      *)
(* Rounding of the binary floating-point format is not modelled.           *)
(***************************************************************************)
EXTENDS Integers, Sequences, FiniteSets, TLC

VARIABLES initial_balance, commission, balance, position, entry_price,
          trades, equity_curve, df, i, signal, pc, ncalls, call, ret,
          strategy_func, twin, equity_df

vars == <<initial_balance, commission, balance, position, entry_price,
          trades, equity_curve, df, i, signal, pc, ncalls, call, ret,
          strategy_func, twin, equity_df>>

----------------------------------------------------------------------------
(* Bounds of the model *)

\* longest bar series handed to run_backtest
MaxBars == 4
\* most direct buy()/sell() calls made on one engine
MaxCalls == 3

----------------------------------------------------------------------------
(* Rational arithmetic standing for float arithmetic *)

Abs(x) == IF x < 0 THEN -x ELSE x

RECURSIVE GCD(_, _)
GCD(a, b) == IF b = 0 THEN a ELSE GCD(b, a % b)

\* the rational n/d (d # 0) in lowest terms
Rat(n, d) ==
    LET g == GCD(Abs(n), Abs(d))
        s == IF d < 0 THEN -1 ELSE 1
    IN [n |-> (s * n) \div g, d |-> (s * d) \div g]

RInt(k) == [n |-> k, d |-> 1]

Zero == RInt(0)

RAdd(x, y) ==
    LET g == GCD(x.d, y.d)
    IN Rat(x.n * (y.d \div g) + y.n * (x.d \div g), (x.d \div g) * y.d)

RNeg(x) == [n |-> -x.n, d |-> x.d]

RSub(x, y) == RAdd(x, RNeg(y))

RMul(x, y) ==
    LET g1 == GCD(Abs(x.n), y.d)
        g2 == GCD(Abs(y.n), x.d)
    IN Rat((x.n \div g1) * (y.n \div g2), (x.d \div g2) * (y.d \div g1))

\* x / y for y # 0 (Python raises ZeroDivisionError for y = 0, see IsZero)
RDiv(x, y) == RMul(x, Rat(y.d, y.n))

IsZero(x) == x.n = 0

RLe(x, y) ==
    LET g == GCD(x.d, y.d)
    IN x.n * (y.d \div g) <= y.n * (x.d \div g)

RLt(x, y) == RLe(x, y) /\ x # y

RECURSIVE RSum(_)
RSum(s) == IF s = <<>> THEN Zero ELSE RAdd(Head(s), RSum(Tail(s)))

RECURSIVE RMaxSeq(_)
RMaxSeq(s) ==
    IF Len(s) = 1 THEN s[1]
    ELSE LET m == RMaxSeq(Tail(s)) IN IF RLe(m, s[1]) THEN s[1] ELSE m

RECURSIVE RMinSeq(_)
RMinSeq(s) ==
    IF Len(s) = 1 THEN s[1]
    ELSE LET m == RMinSeq(Tail(s)) IN IF RLe(s[1], m) THEN s[1] ELSE m

----------------------------------------------------------------------------
(* Inputs *)

\* close prices of the bars (positive: the series is market data)
Prices == {90, 100, 110, 120}

\* values strategy_func returns: 1 buy, -1 sell, 0 hold
Signals == {1, 0, -1}

\* commission rates: none; 1/38, under which a buy leaves 1/40 of the cash;
\* 1/19, under which the cost of a buy is exactly the cash; and 1/10, under
\* which the cost exceeds the cash.  (The numbers of a run stay within
\* TLC's integers for these rates.)
Commissions == {Rat(0, 1), Rat(1, 38), Rat(1, 19), Rat(1, 10)}

InitialBalances == {RInt(10000)}

\* how the open_time column runs over the rows: strictly ascending, or
\* with neighbouring rows swapped (an unsorted frame)
TimeOrders == {"ascending", "swapped"}

open_time_of(order, k) ==
    IF order = "ascending" THEN k
    ELSE IF k % 2 = 1 THEN k + 1 ELSE k - 1

\* the data frames: rows 1..n of (open_time, close)
DataFrames ==
    UNION { { [k \in 1..n |-> [open_time |-> open_time_of(o, k), close |-> c[k]]] :
                c \in [1..n -> Prices], o \in TimeOrders } : n \in 0..MaxBars }

\* strategy functions (df, index) -> signal.  "any" is an arbitrary signal
\* source.  "momentum" compares the close of row index + look with the row
\* before it; "level" buys at a close of at most 90 and sells at a close of
\* at least 110 of row index + look.  look = 0 reads the frame up to the
\* current row, look = 1 reads the row after it.
AnyStrategy == [kind |-> "any", look |-> 0]

Strategies == [kind : {"momentum", "level"}, look : {0, 1}]

strategy_signal(f, frame, idx) ==
    LET k == idx + f.look
    IN IF k > Len(frame) THEN 0
       ELSE IF f.kind = "momentum"
       THEN IF k < 2 THEN 0
            ELSE IF frame[k].close > frame[k - 1].close THEN 1
            ELSE IF frame[k].close < frame[k - 1].close THEN -1
            ELSE 0
       ELSE IF frame[k].close <= 90 THEN 1
            ELSE IF frame[k].close >= 110 THEN -1
            ELSE 0

\* quantities passed to direct buy()/sell() calls
Quantities == {RInt(0), RInt(50), RInt(95)}

----------------------------------------------------------------------------
(* BacktestEngine *)

\* the engine object
self == [initial_balance |-> initial_balance, commission |-> commission,
         balance |-> balance, position |-> position,
         entry_price |-> entry_price, trades |-> trades,
         equity_curve |-> equity_curve]

\* __init__
BacktestEngine(ib, c) ==
    [initial_balance |-> ib, commission |-> c, balance |-> ib,
     position |-> Zero, entry_price |-> Zero, trades |-> <<>>,
     equity_curve |-> <<>>]

\* variant: the funds check always passes
buy_affordable_always(cost, bal) == TRUE

\* variant: cost < self.balance
buy_affordable_strict(cost, bal) == RLt(cost, bal)

\* cost <= self.balance
buy_affordable(cost, bal) == RLe(cost, bal)

\* variant: the balance is debited without the commission
buy_nofee(s, price, quantity, timestamp) ==
    LET cost == RMul(RMul(quantity, price), RAdd(RInt(1), s.commission))
    IN IF buy_affordable(cost, s.balance)
       THEN LET bal == RSub(s.balance, RMul(quantity, price))
            IN [eng |-> [s EXCEPT !.balance = bal,
                                  !.position = RAdd(s.position, quantity),
                                  !.entry_price = price,
                                  !.trades = Append(s.trades,
                                      [type |-> "BUY", timestamp |-> timestamp,
                                       price |-> price, quantity |-> quantity,
                                       cost |-> cost, balance |-> bal])],
                ret |-> "True"]
       ELSE [eng |-> s, ret |-> "False"]

\* buy: the engine after the call and the value returned
buy(s, price, quantity, timestamp) ==
    LET cost == RMul(RMul(quantity, price), RAdd(RInt(1), s.commission))
    IN IF buy_affordable(cost, s.balance)
       THEN LET bal == RSub(s.balance, cost)
            IN [eng |-> [s EXCEPT !.balance = bal,
                                  !.position = RAdd(s.position, quantity),
                                  !.entry_price = price,
                                  !.trades = Append(s.trades,
                                      [type |-> "BUY", timestamp |-> timestamp,
                                       price |-> price, quantity |-> quantity,
                                       cost |-> cost, balance |-> bal])],
                ret |-> "True"]
       ELSE [eng |-> s, ret |-> "False"]

\* variant: the revenue is credited with the commission added
sell_surcharge(s, price, quantity, timestamp) ==
    IF RLe(quantity, s.position)
    THEN LET revenue == RMul(RMul(quantity, price), RAdd(RInt(1), s.commission))
             bal == RAdd(s.balance, revenue)
             pos == RSub(s.position, quantity)
             profit == RMul(RSub(price, s.entry_price), quantity)
         IN IF IsZero(s.entry_price)
            THEN [eng |-> [s EXCEPT !.balance = bal, !.position = pos],
                  ret |-> "ZeroDivisionError"]
            ELSE [eng |-> [s EXCEPT !.balance = bal, !.position = pos,
                                    !.trades = Append(s.trades,
                                        [type |-> "SELL", timestamp |-> timestamp,
                                         price |-> price, quantity |-> quantity,
                                         revenue |-> revenue, profit |-> profit,
                                         profit_pct |->
                                            RMul(RDiv(RSub(price, s.entry_price),
                                                      s.entry_price), RInt(100)),
                                         balance |-> bal])],
                  ret |-> "True"]
    ELSE [eng |-> s, ret |-> "False"]

\* sell: the engine after the call and the value returned; the division by
\* entry_price raises after balance and position have been assigned
sell(s, price, quantity, timestamp) ==
    IF RLe(quantity, s.position)
    THEN LET revenue == RMul(RMul(quantity, price), RSub(RInt(1), s.commission))
             bal == RAdd(s.balance, revenue)
             pos == RSub(s.position, quantity)
             profit == RMul(RSub(price, s.entry_price), quantity)
         IN IF IsZero(s.entry_price)
            THEN [eng |-> [s EXCEPT !.balance = bal, !.position = pos],
                  ret |-> "ZeroDivisionError"]
            ELSE [eng |-> [s EXCEPT !.balance = bal, !.position = pos,
                                    !.trades = Append(s.trades,
                                        [type |-> "SELL", timestamp |-> timestamp,
                                         price |-> price, quantity |-> quantity,
                                         revenue |-> revenue, profit |-> profit,
                                         profit_pct |->
                                            RMul(RDiv(RSub(price, s.entry_price),
                                                      s.entry_price), RInt(100)),
                                         balance |-> bal])],
                  ret |-> "True"]
    ELSE [eng |-> s, ret |-> "False"]

get_portfolio_value(s, current_price) ==
    RAdd(s.balance, RMul(s.position, current_price))

\* variant: the whole balance is ordered
order_quantity_all(bal, current_price) == RDiv(bal, current_price)

\* quantity = self.balance / current_price * 0.95
order_quantity(bal, current_price) ==
    RMul(RDiv(bal, current_price), Rat(95, 100))

\* variant: a sell signal is executed without checking for a position
execute_signal_sell_flat(s, sig, current_price, timestamp) ==
    IF sig = 1 /\ IsZero(s.position)
    THEN buy(s, current_price, order_quantity(s.balance, current_price), timestamp)
    ELSE IF sig = -1
    THEN sell(s, current_price, s.position, timestamp)
    ELSE [eng |-> s, ret |-> "None"]

\* variant: a sell signal sells the sizing fraction of the position
execute_signal_partial(s, sig, current_price, timestamp) ==
    IF sig = 1 /\ IsZero(s.position)
    THEN buy(s, current_price, order_quantity(s.balance, current_price), timestamp)
    ELSE IF sig = -1 /\ RLt(Zero, s.position)
    THEN sell(s, current_price, RMul(s.position, Rat(95, 100)), timestamp)
    ELSE [eng |-> s, ret |-> "None"]

\* variant: a buy signal is executed without checking for a position
execute_signal_pyramid(s, sig, current_price, timestamp) ==
    IF sig = 1
    THEN buy(s, current_price, order_quantity(s.balance, current_price), timestamp)
    ELSE IF sig = -1 /\ RLt(Zero, s.position)
    THEN sell(s, current_price, s.position, timestamp)
    ELSE [eng |-> s, ret |-> "None"]

\* the signal dispatch of one loop iteration of run_backtest
execute_signal(s, sig, current_price, timestamp) ==
    IF sig = 1 /\ IsZero(s.position)
    THEN buy(s, current_price, order_quantity(s.balance, current_price), timestamp)
    ELSE IF sig = -1 /\ RLt(Zero, s.position)
    THEN sell(s, current_price, s.position, timestamp)
    ELSE [eng |-> s, ret |-> "None"]

\* variant: the strategy is called with the index of the following row
call_strategy_next(f, frame, idx) ==
    IF f.kind = "any" THEN Signals ELSE {strategy_signal(f, frame, idx + 1)}

\* signal = strategy_func(df, i): the whole frame and the index of the
\* current row are handed to the strategy; the signals it may return
call_strategy(f, frame, idx) ==
    IF f.kind = "any" THEN Signals ELSE {strategy_signal(f, frame, idx)}

\* the entry recorded in the equity curve for a bar
equity_point(s, timestamp, current_price) ==
    [timestamp |-> timestamp,
     portfolio_value |-> get_portfolio_value(s, current_price),
     price |-> current_price]

\* variant: the portfolio is valued before the order is executed
run_backtest_iteration_stale(s, row, sig) ==
    LET current_price == RInt(row.close)
        timestamp == row.open_time
        r == execute_signal(s, sig, current_price, timestamp)
    IN IF r.ret = "ZeroDivisionError"
       THEN r
       ELSE [eng |-> [r.eng EXCEPT !.equity_curve =
                         Append(r.eng.equity_curve,
                                equity_point(s, timestamp, current_price))],
             ret |-> r.ret]

\* variant: a bar whose order was refused records no equity point
run_backtest_iteration_skip(s, row, sig) ==
    LET current_price == RInt(row.close)
        timestamp == row.open_time
        r == execute_signal(s, sig, current_price, timestamp)
    IN IF r.ret \in {"ZeroDivisionError", "False"}
       THEN r
       ELSE [eng |-> [r.eng EXCEPT !.equity_curve =
                         Append(r.eng.equity_curve,
                                equity_point(r.eng, timestamp, current_price))],
             ret |-> r.ret]

\* variant: the timestamp is read from the frame's first row
run_backtest_iteration_first(s, row, sig) ==
    LET current_price == RInt(row.close)
        timestamp == df[1].open_time
        r == execute_signal(s, sig, current_price, timestamp)
    IN IF r.ret = "ZeroDivisionError"
       THEN r
       ELSE [eng |-> [r.eng EXCEPT !.equity_curve =
                         Append(r.eng.equity_curve,
                                equity_point(r.eng, timestamp, current_price))],
             ret |-> r.ret]

\* one iteration of the loop of run_backtest
run_backtest_iteration(s, row, sig) ==
    LET current_price == RInt(row.close)
        timestamp == row.open_time
        r == execute_signal(s, sig, current_price, timestamp)
    IN IF r.ret = "ZeroDivisionError"
       THEN r
       ELSE [eng |-> [r.eng EXCEPT !.equity_curve =
                         Append(r.eng.equity_curve,
                                equity_point(r.eng, timestamp, current_price))],
             ret |-> r.ret]

\* run_backtest as a function: the engine and the last signal after the
\* first n rows of a frame, for a strategy that returns one signal per call
RECURSIVE run_backtest(_, _, _, _)
run_backtest(eng0, frame, f, n) ==
    IF n = 0 THEN [eng |-> eng0, signal |-> 0]
    ELSE LET before == run_backtest(eng0, frame, f, n - 1)
             sig == CHOOSE x \in call_strategy(f, frame, n) : TRUE
         IN [eng |-> run_backtest_iteration(before.eng, frame[n], sig).eng,
             signal |-> sig]

\* the type == 'SELL' entries of a ledger
RECURSIVE sell_trades(_)
sell_trades(ts) ==
    IF ts = <<>> THEN <<>>
    ELSE IF Head(ts).type = "SELL" THEN <<Head(ts)>> \o sell_trades(Tail(ts))
    ELSE sell_trades(Tail(ts))

\* variant: a sale at no profit counts as a winning one
RECURSIVE count_where_ge(_, _)
count_where_ge(s, sign) ==
    IF s = <<>> THEN 0
    ELSE (IF (sign = 1 /\ RLe(Zero, Head(s))) \/ (sign = -1 /\ RLt(Head(s), Zero))
          THEN 1 ELSE 0) + count_where_ge(Tail(s), sign)

RECURSIVE count_where(_, _)
count_where(s, sign) ==
    IF s = <<>> THEN 0
    ELSE (IF (sign = 1 /\ RLt(Zero, Head(s))) \/ (sign = -1 /\ RLt(Head(s), Zero))
          THEN 1 ELSE 0) + count_where(Tail(s), sign)

get_performance_metrics(s) ==
    IF s.trades = <<>> THEN [error |-> "No trades executed"]
    ELSE LET st == sell_trades(s.trades)
         IN IF st = <<>> THEN [error |-> "No sell trades executed"]
            ELSE LET profits == [k \in 1..Len(st) |-> st[k].profit]
                     profit_pcts == [k \in 1..Len(st) |-> st[k].profit_pct]
                     last_price == s.trades[Len(s.trades)].price
                 IN [total_trades |-> Len(st),
                     winning_trades |-> count_where(profits, 1),
                     losing_trades |-> count_where(profits, -1),
                     win_rate |-> RMul(Rat(count_where(profits, 1), Len(st)), RInt(100)),
                     total_return |-> RSum(profits),
                     total_return_pct |->
                         RMul(RDiv(RSub(get_portfolio_value(s, last_price),
                                        s.initial_balance),
                                   s.initial_balance), RInt(100)),
                     avg_profit |-> RDiv(RSum(profits), RInt(Len(st))),
                     avg_profit_pct |-> RDiv(RSum(profit_pcts), RInt(Len(st))),
                     max_profit |-> RMaxSeq(profits),
                     max_loss |-> RMinSeq(profits),
                     final_balance |-> s.balance,
                     final_position |-> s.position]

----------------------------------------------------------------------------
(* AdvancedAnalytics (advanced_analytics.py).  The analyzer keeps a frame  *)
(* equity_df: one row per equity point with the columns timestamp,         *)
(* portfolio_value, price and returns.  Timestamps are days since          *)
(* 1970-01-01.  A mean divided by a standard deviation is irrational in    *)
(* general; such a result keeps the two samples it is computed from.       *)

NaN == [n |-> 0, d |-> 0]

\* Series.pct_change(): the first change is undefined
pct_change(values) ==
    [k \in 1..Len(values) |->
        IF k = 1 THEN NaN
        ELSE RSub(RDiv(values[k], values[k - 1]), RInt(1))]

dropna(xs) == SelectSeq(xs, LAMBDA x : x # NaN)

\* AdvancedAnalytics.__init__: the frame built from engine.equity_curve
AdvancedAnalytics(eng) ==
    LET curve == eng.equity_curve
        returns == pct_change([k \in 1..Len(curve) |-> curve[k].portfolio_value])
    IN [k \in 1..Len(curve) |->
           [timestamp |-> curve[k].timestamp,
            portfolio_value |-> curve[k].portfolio_value,
            price |-> curve[k].price,
            returns |-> returns[k]]]

\* Series.std() (ddof = 1): undefined for fewer than two values, zero
\* exactly when all values are equal
std_is_nan(xs) == Len(xs) < 2
std_is_zero(xs) == Len(xs) >= 2 /\ \A k \in 1..Len(xs) : xs[k] = xs[1]

\* results of the ratios: the number 0, the undefined value, or
\* mean(mean_of) / std(std_of) * sqrt(252)
RatioZero == [kind |-> "0", mean_of |-> <<>>, std_of |-> <<>>]
RatioNaN(xs, ys) == [kind |-> "NaN", mean_of |-> xs, std_of |-> ys]
RatioOf(xs, ys) == [kind |-> "finite", mean_of |-> xs, std_of |-> ys]

\* risk_free_rate / 252 with the default risk_free_rate = 0.02
daily_risk_free == Rat(2, 100 * 252)

excess_returns_of(eq) ==
    LET returns == dropna([k \in 1..Len(eq) |-> eq[k].returns])
    IN [k \in 1..Len(returns) |-> RSub(returns[k], daily_risk_free)]

calculate_sharpe_ratio(eq) ==
    IF eq = <<>> \/ Len(eq) < 2 THEN RatioZero
    ELSE LET excess_returns == excess_returns_of(eq)
         IN IF Len(excess_returns) = 0 THEN RatioZero
            ELSE IF std_is_zero(excess_returns) THEN RatioZero
            ELSE IF std_is_nan(excess_returns)
            THEN RatioNaN(excess_returns, excess_returns)
            ELSE RatioOf(excess_returns, excess_returns)

calculate_sortino_ratio(eq) ==
    IF eq = <<>> \/ Len(eq) < 2 THEN RatioZero
    ELSE LET excess_returns == excess_returns_of(eq)
             downside_returns == SelectSeq(excess_returns, LAMBDA x : RLt(x, Zero))
         IN IF Len(excess_returns) = 0 THEN RatioZero
            ELSE IF Len(downside_returns) = 0 \/ std_is_zero(downside_returns)
            THEN RatioZero
            ELSE IF std_is_nan(downside_returns)
            THEN RatioNaN(excess_returns, downside_returns)
            ELSE RatioOf(excess_returns, downside_returns)

portfolio_values_of(eq) == [k \in 1..Len(eq) |-> eq[k].portfolio_value]

\* portfolio_values.expanding().max()
expanding_max(values) ==
    [k \in 1..Len(values) |-> RMaxSeq(SubSeq(values, 1, k))]

drawdown_of(values) ==
    LET peak == expanding_max(values)
    IN [k \in 1..Len(values) |-> RDiv(RSub(values[k], peak[k]), peak[k])]

\* variant: the row of the last occurrence of the minimum
idxmin_last(xs) == CHOOSE k \in 1..Len(xs) :
                      /\ xs[k] = RMinSeq(xs)
                      /\ \A j \in (k + 1)..Len(xs) : xs[j] # xs[k]

\* Series.idxmin() / idxmax(): the row of the first occurrence (rows are
\* numbered from 1 here, from 0 in the frame's index)
idxmin(xs) == CHOOSE k \in 1..Len(xs) :
                 /\ xs[k] = RMinSeq(xs)
                 /\ \A j \in 1..(k - 1) : xs[j] # xs[k]

\* variant: the row of the last occurrence of the maximum
idxmax_last(xs) == CHOOSE k \in 1..Len(xs) :
                      /\ xs[k] = RMaxSeq(xs)
                      /\ \A j \in (k + 1)..Len(xs) : xs[j] # xs[k]

idxmax(xs) == CHOOSE k \in 1..Len(xs) :
                 /\ xs[k] = RMaxSeq(xs)
                 /\ \A j \in 1..(k - 1) : xs[j] # xs[k]

DrawdownResult(kind, max_dd, max_dd_pct, start_date, end_date) ==
    [kind |-> kind, max_dd |-> max_dd, max_dd_pct |-> max_dd_pct,
     start_date |-> start_date, end_date |-> end_date]

\* peak[:max_dd_idx] holds the rows before the trough; idxmax of an empty
\* series raises ValueError
calculate_max_drawdown(eq) ==
    IF eq = <<>> THEN DrawdownResult("tuple", Zero, Zero, "None", "None")
    ELSE LET portfolio_values == portfolio_values_of(eq)
             peak == expanding_max(portfolio_values)
             drawdown == drawdown_of(portfolio_values)
             max_dd == RMinSeq(drawdown)
             max_dd_idx == idxmin(drawdown)
         IN IF max_dd_idx = 1
            THEN DrawdownResult("ValueError", "None", "None", "None", "None")
            ELSE LET peak_idx == idxmax(SubSeq(peak, 1, max_dd_idx - 1))
                 IN DrawdownResult("tuple", max_dd, RMul(max_dd, RInt(100)),
                                   eq[peak_idx].timestamp, eq[max_dd_idx].timestamp)

\* DataFrame.round(decimals): to the nearest multiple of 10^-decimals, ties
\* to the even one
Pow10(decimals) == IF decimals = 2 THEN 100 ELSE 10000

\* variant: rounded down
round_floor(x, decimals) ==
    Rat((x.n * Pow10(decimals)) \div x.d, Pow10(decimals))

round(x, decimals) ==
    LET y == x.n * Pow10(decimals)
        q == y \div x.d
        r == y % x.d
        up == 2 * r > x.d \/ (2 * r = x.d /\ q % 2 = 1)
    IN Rat(IF up THEN q + 1 ELSE q, Pow10(decimals))

\* index.to_period(period): the calendar week (ending on Sunday) or month
\* of a day; 1970-01-01 is a Thursday
to_period(day, period) ==
    IF period = "W" THEN (day + 3) \div 7
    ELSE IF day < 31 THEN 0 ELSE IF day < 59 THEN 1 ELSE IF day < 90 THEN 2 ELSE 3

\* df_period: a new frame indexed by timestamp, with the column period
with_period(eq, period) ==
    [k \in 1..Len(eq) |->
        [timestamp |-> eq[k].timestamp, portfolio_value |-> eq[k].portfolio_value,
         price |-> eq[k].price, returns |-> eq[k].returns,
         period |-> to_period(eq[k].timestamp, period)]]

\* the standard deviation of a group: undefined, 0 or that of the sample
group_std(xs) ==
    [kind |-> IF std_is_nan(xs) THEN "NaN" ELSE IF std_is_zero(xs) THEN "0" ELSE "std",
     std_of |-> xs]

\* groupby('period').agg(...): one row per period that has a point
period_performance(df_period) ==
    [b \in {df_period[k].period : k \in 1..Len(df_period)} |->
        LET rows == SelectSeq(df_period, LAMBDA row : row.period = b)
            returns == dropna([k \in 1..Len(rows) |-> rows[k].returns])
            start_value == round(rows[1].portfolio_value, 4)
            end_value == round(rows[Len(rows)].portfolio_value, 4)
        IN [start_value |-> start_value,
            end_value |-> end_value,
            total_return |-> round(RSum(returns), 4),
            volatility |-> group_std(returns),
            periods |-> Len(returns),
            return_pct |-> round(RMul(RDiv(RSub(end_value, start_value),
                                           start_value), RInt(100)), 2)]]

\* variant: the column period is added to the analyzer's own frame
performance_by_period_inplace(eq, period) ==
    IF eq = <<>> THEN [equity_df |-> eq, result |-> <<>>]
    ELSE [equity_df |-> with_period(eq, period),
          result |-> period_performance(with_period(eq, period))]

\* performance_by_period: the analyzer's frame afterwards and the result
performance_by_period(eq, period) ==
    IF eq = <<>> THEN [equity_df |-> eq, result |-> <<>>]
    ELSE [equity_df |-> eq,
          result |-> period_performance(with_period(eq, period))]

\* variant: every point below the running peak is in drawdown
in_drawdown_any(drawdown) ==
    [k \in 1..Len(drawdown) |-> RLt(drawdown[k], Zero)]

\* in_drawdown = drawdown < -0.1: more than 0.1% below the running peak
in_drawdown(drawdown) ==
    [k \in 1..Len(drawdown) |-> RLt(drawdown[k], Rat(-1, 10))]

\* the loop of drawdown_analysis from row k on; start_idx = 0 is None
RECURSIVE drawdown_periods(_, _, _, _, _, _)
drawdown_periods(eq, drawdown, in_dd, k, start_idx, acc) ==
    IF k > Len(eq) THEN acc
    ELSE LET is_dd == in_dd[k]
         IN IF is_dd /\ start_idx = 0
            THEN drawdown_periods(eq, drawdown, in_dd, k + 1, k, acc)
            ELSE IF ~is_dd /\ start_idx # 0
            THEN LET end_idx == k - 1
                 IN drawdown_periods(eq, drawdown, in_dd, k + 1, 0,
                        Append(acc,
                          [start_date |-> eq[start_idx].timestamp,
                           end_date |-> eq[end_idx].timestamp,
                           duration_days |-> eq[end_idx].timestamp
                                               - eq[start_idx].timestamp,
                           max_drawdown_pct |->
                               RMinSeq(SubSeq(drawdown, start_idx, end_idx)),
                           recovery_date |-> eq[end_idx].timestamp]))
            ELSE drawdown_periods(eq, drawdown, in_dd, k + 1, start_idx, acc)

drawdown_analysis(eq) ==
    IF eq = <<>> THEN <<>>
    ELSE LET values == portfolio_values_of(eq)
             drawdown == [k \in 1..Len(eq) |-> RMul(drawdown_of(values)[k], RInt(100))]
         IN drawdown_periods(eq, drawdown, in_drawdown(drawdown), 1, 0, <<>>)

----------------------------------------------------------------------------
(* Specification of a run: an engine is constructed, run_backtest is      *)
(* called on a data frame, the strategy returns one signal per row.       *)

EngineIs(e) ==
    /\ initial_balance = e.initial_balance
    /\ commission = e.commission
    /\ balance = e.balance
    /\ position = e.position
    /\ entry_price = e.entry_price
    /\ trades = e.trades
    /\ equity_curve = e.equity_curve

EngineBecomes(e) ==
    /\ initial_balance' = e.initial_balance
    /\ commission' = e.commission
    /\ balance' = e.balance
    /\ position' = e.position
    /\ entry_price' = e.entry_price
    /\ trades' = e.trades
    /\ equity_curve' = e.equity_curve

NoCall == [op |-> "none", price |-> Zero, quantity |-> Zero, timestamp |-> 0]

Init ==
    /\ \E ib \in InitialBalances, c \in Commissions : EngineIs(BacktestEngine(ib, c))
    /\ df \in DataFrames
    /\ i = 0
    /\ signal = 0
    /\ pc = "constructed"
    /\ ncalls = 0
    /\ call = NoCall
    /\ ret = "None"
    /\ strategy_func = AnyStrategy
    /\ twin = <<>>
    /\ equity_df = <<>>

\* engine.run_backtest(df, strategy_func) is entered
run_backtest_enter ==
    /\ pc = "constructed"
    /\ pc' = "loop"
    /\ UNCHANGED <<initial_balance, commission, balance, position, entry_price,
                   trades, equity_curve, df, i, signal, ncalls, call, ret,
                   strategy_func, twin, equity_df>>

\* the loop body for the next row, with the signal the strategy returns
run_backtest_row ==
    /\ pc = "loop"
    /\ i < Len(df)
    /\ \E sig \in call_strategy(strategy_func, df, i + 1) :
          LET r == run_backtest_iteration(self, df[i + 1], sig)
          IN /\ EngineBecomes(r.eng)
             /\ signal' = sig
             /\ ret' = r.ret
             /\ pc' = IF r.ret = "ZeroDivisionError" THEN "raised" ELSE "loop"
             /\ twin' = [k \in 1..Len(twin) |->
                            run_backtest_iteration(twin[k], df[i + 1], sig).eng]
    /\ i' = i + 1
    /\ UNCHANGED <<df, ncalls, call, strategy_func, equity_df>>

\* the rows are exhausted and run_backtest returns
run_backtest_return ==
    /\ pc = "loop"
    /\ i = Len(df)
    /\ pc' = "done"
    /\ UNCHANGED <<initial_balance, commission, balance, position, entry_price,
                   trades, equity_curve, df, i, signal, ncalls, call, ret,
                   strategy_func, twin, equity_df>>

Next == run_backtest_enter \/ run_backtest_row \/ run_backtest_return

Spec == Init /\ [][Next]_vars

----------------------------------------------------------------------------
(* Specification of direct use: an engine is constructed and a caller     *)
(* invokes buy() and sell() on it.                                         *)

InitApi ==
    /\ \E ib \in InitialBalances, c \in Commissions : EngineIs(BacktestEngine(ib, c))
    /\ df = <<>>
    /\ i = 0
    /\ signal = 0
    /\ pc = "constructed"
    /\ ncalls = 0
    /\ call = NoCall
    /\ ret = "None"
    /\ strategy_func = AnyStrategy
    /\ twin = <<>>
    /\ equity_df = <<>>

\* engine.buy(price, quantity, timestamp)
call_buy ==
    /\ pc = "constructed"
    /\ ncalls < MaxCalls
    /\ \E p \in Prices, q \in Quantities :
          LET r == buy(self, RInt(p), q, ncalls + 1)
          IN /\ EngineBecomes(r.eng)
             /\ ret' = r.ret
             /\ call' = [op |-> "buy", price |-> RInt(p), quantity |-> q,
                         timestamp |-> ncalls + 1]
    /\ ncalls' = ncalls + 1
    /\ UNCHANGED <<df, i, signal, pc, strategy_func, twin, equity_df>>

\* engine.sell(price, quantity, timestamp)
call_sell ==
    /\ pc = "constructed"
    /\ ncalls < MaxCalls
    /\ \E p \in Prices, q \in Quantities :
          LET r == sell(self, RInt(p), q, ncalls + 1)
          IN /\ EngineBecomes(r.eng)
             /\ ret' = r.ret
             /\ call' = [op |-> "sell", price |-> RInt(p), quantity |-> q,
                         timestamp |-> ncalls + 1]
    /\ ncalls' = ncalls + 1
    /\ UNCHANGED <<df, i, signal, pc, strategy_func, twin, equity_df>>

NextApi == call_buy \/ call_sell

SpecApi == InitApi /\ [][NextApi]_vars

----------------------------------------------------------------------------
(* Specification of a run with a given strategy function: the signal of    *)
(* each row is what the strategy computes from the frame and the index.    *)

\* the frames in time order
AscendingFrames == {f \in DataFrames : \A k \in 1..Len(f) : f[k].open_time = k}

InitStrategy ==
    /\ \E ib \in InitialBalances, c \in {Rat(0, 1), Rat(1, 38)} :
          EngineIs(BacktestEngine(ib, c))
    /\ df \in AscendingFrames
    /\ i = 0
    /\ signal = 0
    /\ pc = "constructed"
    /\ ncalls = 0
    /\ call = NoCall
    /\ ret = "None"
    /\ strategy_func \in Strategies
    /\ twin = <<>>
    /\ equity_df = <<>>

SpecStrategy == InitStrategy /\ [][Next]_vars

----------------------------------------------------------------------------
(* Specification of a replay: a second engine with a higher commission is  *)
(* run over the same frame with the same signals, row by row.              *)

InitReplay ==
    /\ \E ib \in InitialBalances, c1 \in Commissions, c2 \in Commissions :
          /\ RLt(c1, c2)
          /\ EngineIs(BacktestEngine(ib, c1))
          /\ twin = <<BacktestEngine(ib, c2)>>
    /\ df \in AscendingFrames
    /\ i = 0
    /\ signal = 0
    /\ pc = "constructed"
    /\ ncalls = 0
    /\ call = NoCall
    /\ ret = "None"
    /\ strategy_func = AnyStrategy
    /\ equity_df = <<>>

SpecReplay == InitReplay /\ [][Next]_vars

\* run_backtest with commissions from 1/19 upwards: at 1/19 an order of 95% of
\* the balance costs the balance exactly, above it the order costs more
HighCommissions == {Rat(1, 19), Rat(1, 18), Rat(1, 10), Rat(1, 5), Rat(1, 2)}

InitCostly ==
    /\ \E ib \in InitialBalances, c \in HighCommissions : EngineIs(BacktestEngine(ib, c))
    /\ df \in DataFrames
    /\ i = 0
    /\ signal = 0
    /\ pc = "constructed"
    /\ ncalls = 0
    /\ call = NoCall
    /\ ret = "None"
    /\ strategy_func = AnyStrategy
    /\ twin = <<>>
    /\ equity_df = <<>>

SpecCostly == InitCostly /\ [][Next]_vars

----------------------------------------------------------------------------
(* Specification of an analysis: the run is complete, an analyzer is       *)
(* constructed on the engine and its functions are called in any order.    *)

MaxPoints == 5

\* portfolio values of the equity points (positive)
EquityValues == {80, 90, 95, 100}

\* days between two equity points, and the day of the first one
DaySteps == {3}
FirstDay == 27

EquityCurves ==
    UNION { { [k \in 1..n |-> [timestamp |-> FirstDay + (k - 1) * step,
                               portfolio_value |-> RInt(v[k]),
                               price |-> RInt(100)]] :
                v \in [1..n -> EquityValues], step \in DaySteps } : n \in 0..MaxPoints }

Periods == {"M", "W"}

InitAnalytics ==
    /\ \E ib \in InitialBalances, curve \in EquityCurves :
          EngineIs([BacktestEngine(ib, Zero) EXCEPT !.equity_curve = curve])
    /\ df = <<>>
    /\ i = 0
    /\ signal = 0
    /\ pc = "done"
    /\ ncalls = 0
    /\ call = NoCall
    /\ ret = "None"
    /\ strategy_func = AnyStrategy
    /\ twin = <<>>
    /\ equity_df = <<>>

\* analytics = AdvancedAnalytics(engine, df)
AdvancedAnalytics_init ==
    /\ pc = "done"
    /\ pc' = "analyzer"
    /\ equity_df' = AdvancedAnalytics(self)
    /\ UNCHANGED <<initial_balance, commission, balance, position, entry_price,
                   trades, equity_curve, df, i, signal, ncalls, call, ret,
                   strategy_func, twin>>

\* a call of a function of the analyzer that only reads its frame
analytics_call(op, result) ==
    /\ pc = "analyzer"
    /\ call' = [op |-> op, period |-> ""]
    /\ ret' = result
    /\ UNCHANGED <<initial_balance, commission, balance, position, entry_price,
                   trades, equity_curve, df, i, signal, pc, ncalls, strategy_func,
                   twin, equity_df>>

call_calculate_sharpe_ratio ==
    analytics_call("calculate_sharpe_ratio", calculate_sharpe_ratio(equity_df))

call_calculate_sortino_ratio ==
    analytics_call("calculate_sortino_ratio", calculate_sortino_ratio(equity_df))

call_calculate_max_drawdown ==
    analytics_call("calculate_max_drawdown", calculate_max_drawdown(equity_df))

call_drawdown_analysis ==
    analytics_call("drawdown_analysis", drawdown_analysis(equity_df))

call_performance_by_period ==
    /\ pc = "analyzer"
    /\ \E period \in Periods :
          LET r == performance_by_period(equity_df, period)
          IN /\ call' = [op |-> "performance_by_period", period |-> period]
             /\ ret' = r.result
             /\ equity_df' = r.equity_df
    /\ UNCHANGED <<initial_balance, commission, balance, position, entry_price,
                   trades, equity_curve, df, i, signal, pc, ncalls, strategy_func,
                   twin>>

NextAnalytics ==
    \/ AdvancedAnalytics_init
    \/ call_calculate_sharpe_ratio
    \/ call_calculate_sortino_ratio
    \/ call_calculate_max_drawdown
    \/ call_performance_by_period
    \/ call_drawdown_analysis

SpecAnalytics == InitAnalytics /\ [][NextAnalytics]_vars

----------------------------------------------------------------------------
(* Specification of a drawdown analysis: as above, on equity curves with   *)
(* dips of 0.05% and of 10%, that is on either side of the 0.1% that       *)
(* drawdown_analysis takes for a drawdown.                                 *)

ShallowValues == {1800, 1999, 2000}

ShallowCurves ==
    UNION { { [k \in 1..n |-> [timestamp |-> FirstDay + (k - 1) * step,
                               portfolio_value |-> RInt(v[k]),
                               price |-> RInt(100)]] :
                v \in [1..n -> ShallowValues], step \in DaySteps } : n \in 0..MaxPoints }

InitDrawdown ==
    /\ \E ib \in InitialBalances, curve \in ShallowCurves :
          EngineIs([BacktestEngine(ib, Zero) EXCEPT !.equity_curve = curve])
    /\ df = <<>>
    /\ i = 0
    /\ signal = 0
    /\ pc = "done"
    /\ ncalls = 0
    /\ call = NoCall
    /\ ret = "None"
    /\ strategy_func = AnyStrategy
    /\ twin = <<>>
    /\ equity_df = <<>>

NextDrawdown ==
    \/ AdvancedAnalytics_init
    \/ call_calculate_max_drawdown
    \/ call_drawdown_analysis

SpecDrawdown == InitDrawdown /\ [][NextDrawdown]_vars

----------------------------------------------------------------------------
(* Properties of run_backtest (checked under Spec) *)

\* a step of the loop of run_backtest: the next row is processed
RowStep == pc = "loop" /\ i' = i + 1

\* the close price of the row processed by a RowStep
NextClose == RInt(df[i + 1].close)

LastOf(s) == s[Len(s)]

\* the scenario of C1: balance 10000, no commission, closes 100, 110, 90, 120
Scenario ==
    /\ initial_balance = RInt(10000)
    /\ commission = Zero
    /\ Len(df) = 4
    /\ df[1].close = 100 /\ df[2].close = 110
    /\ df[3].close = 90 /\ df[4].close = 120

\* the engine of the scenario while it holds the 95 units bought at bar 0
ScenarioLong ==
    /\ balance = RInt(500) /\ position = RInt(95) /\ entry_price = RInt(100)
    /\ Len(trades) = 1

\* the engine of the scenario after the sale at bar 2
ScenarioSold ==
    /\ balance = RInt(9050) /\ position = Zero
    /\ Len(trades) = 2 /\ trades[2].type = "SELL" /\ trades[2].profit = RInt(-950)

\* C1: in the scenario, with signals Buy, Hold, Sell, Hold: bar 0 buys 95
\* units for 9500 and leaves 500; bar 1 changes nothing; bar 2 sells the 95
\* units for 8550, balance 9050, profit -950; after bar 3 the last equity
\* point is worth 9050, the ledger has 2 entries and the win rate is 0.
C1_Scenario ==
    [][
        /\ (RowStep /\ Scenario /\ i = 0 /\ signal' = 1) =>
              /\ Len(trades') = 1
              /\ trades'[1].type = "BUY"
              /\ trades'[1].price = RInt(100)
              /\ trades'[1].quantity = RInt(95)
              /\ trades'[1].cost = RInt(9500)
              /\ trades'[1].balance = RInt(500)
              /\ ScenarioLong'
        /\ (RowStep /\ Scenario /\ i = 1 /\ ScenarioLong /\ signal' = 0) =>
              ScenarioLong'
        /\ (RowStep /\ Scenario /\ i = 2 /\ ScenarioLong /\ signal' = -1) =>
              /\ trades'[2].price = RInt(90)
              /\ trades'[2].quantity = RInt(95)
              /\ trades'[2].revenue = RInt(8550)
              /\ trades'[2].balance = RInt(9050)
              /\ ScenarioSold'
        /\ (RowStep /\ Scenario /\ i = 3 /\ ScenarioSold /\ signal' = 0) =>
              /\ ScenarioSold'
              /\ Len(equity_curve') = 4
              /\ equity_curve'[4].portfolio_value = RInt(9050)
        /\ (pc = "loop" /\ pc' = "done" /\ Scenario /\ ScenarioSold) =>
              /\ Len(trades) = 2
              /\ LastOf(equity_curve).portfolio_value = RInt(9050)
              /\ get_performance_metrics(self).total_trades = 1
              /\ get_performance_metrics(self).winning_trades = 0
              /\ get_performance_metrics(self).win_rate = Zero
    ]_vars

\* the scenario has run to its end: bought at bar 0, sold at bar 2
C1_Witness ==
    /\ Scenario /\ pc = "done" /\ signal = 0 /\ ScenarioSold
    /\ trades[1].timestamp = df[1].open_time
    /\ trades[2].timestamp = df[3].open_time

\* C2: every equity point is worth balance + position * close of its bar on
\* the engine as the bar left it; so is the last one when the run has ended.
C2_Conservation ==
    (i > 0 /\ pc \in {"loop", "done"}) =>
        /\ Len(equity_curve) >= i
        /\ equity_curve[i].portfolio_value =
              RAdd(balance, RMul(position, RInt(df[i].close)))
        /\ pc = "done" =>
              LastOf(equity_curve).portfolio_value =
                  RAdd(balance, RMul(position, RInt(df[Len(df)].close)))

\* a run has ended with a position still open, bought before the last bar
C2_Witness ==
    /\ pc = "done" /\ Len(df) >= 2 /\ RLt(Zero, position)
    /\ LastOf(trades).timestamp # df[Len(df)].open_time
    /\ LastOf(equity_curve).price # LastOf(trades).price

\* C3: balance >= 0 and position >= 0 at every equity point.
C3_NoShortNoMargin ==
    /\ RLe(Zero, balance)
    /\ RLe(Zero, position)

\* a buy has spent the whole balance: nothing is left, nothing is owed
C3_Witness ==
    /\ Len(equity_curve) > 0 /\ IsZero(balance) /\ RLt(Zero, position)

\* C4: after k rows the equity curve has k points, point k carrying the
\* timestamp and close of row k; at the end it has one point per row.
C4_OnePointPerBar ==
    /\ Len(equity_curve) = i
    /\ \A k \in 1..Len(equity_curve) :
          /\ equity_curve[k].timestamp = df[k].open_time
          /\ equity_curve[k].price = RInt(df[k].close)
    /\ pc = "done" => Len(equity_curve) = Len(df)

\* a run has ended in which a buy was rejected and no trade was made
C4_Witness ==
    /\ pc = "done" /\ Len(df) >= 3 /\ trades = <<>> /\ ret = "False"

\* the open_time column is strictly increasing
Ascending == \A k \in 1..(Len(df) - 1) : df[k].open_time < df[k + 1].open_time

\* the processed bar a trade was made at (timestamps are unique)
BarOf(t) == CHOOSE b \in 1..i : df[b].open_time = t.timestamp

\* C5: with strictly increasing timestamps the ledger is strictly ordered
\* by timestamp, every trade carries the timestamp and close of a processed
\* bar, and the bars of the trades are strictly increasing.
C5_LedgerSubsequence ==
    Ascending =>
        /\ \A j \in 1..(Len(trades) - 1) :
              trades[j].timestamp < trades[j + 1].timestamp
        /\ \A j \in 1..Len(trades) :
              \E b \in 1..i : /\ df[b].open_time = trades[j].timestamp
                              /\ RInt(df[b].close) = trades[j].price
        /\ \A j \in 1..(Len(trades) - 1) :
              BarOf(trades[j]) < BarOf(trades[j + 1])

\* an ascending series has yielded three trades, with bars between them
C5_Witness ==
    /\ Ascending /\ Len(df) >= 4 /\ Len(trades) = 3
    /\ trades[1].timestamp = df[1].open_time
    /\ trades[3].timestamp = df[4].open_time

\* the engine state a bar may change, apart from the equity curve
EngineUnchanged ==
    /\ balance' = balance
    /\ position' = position
    /\ entry_price' = entry_price
    /\ trades' = trades

\* C6: a row with signal Hold, with Buy while a position is held, or with
\* Sell while none is held leaves balance, position, entry_price and the
\* ledger as they were and adds one point to the equity curve.
C6_SelfLoop ==
    [][ (/\ RowStep
         /\ \/ signal' = 0
            \/ signal' = 1 /\ RLt(Zero, position)
            \/ signal' = -1 /\ IsZero(position))
        => /\ EngineUnchanged
           /\ Len(equity_curve') = Len(equity_curve) + 1
           /\ SubSeq(equity_curve', 1, Len(equity_curve)) = equity_curve
    ]_vars

\* a Sell signal arrived after a round trip while flat: the ledger still
\* ends with the earlier sale
C6_Witness ==
    /\ pc = "loop" /\ i >= 3 /\ signal = -1 /\ IsZero(position)
    /\ Len(trades) = 2
    /\ trades[2].timestamp # df[i].open_time
    /\ Len(equity_curve) = i

\* C7: a Buy signal while flat orders 0.95 * balance / close; if the cost
\* of that with commission exceeds the balance nothing is traded and the
\* engine is unchanged; otherwise the position becomes that quantity.
C7_BuySizing ==
    [][ (RowStep /\ signal' = 1 /\ IsZero(position)) =>
          LET quantity == RMul(RDiv(balance, NextClose), Rat(19, 20))
              cost == RMul(RMul(quantity, NextClose), RAdd(RInt(1), commission))
          IN IF RLt(balance, cost)
             THEN EngineUnchanged /\ IsZero(position')
             ELSE /\ position' = quantity
                  /\ RLt(Zero, position')
                  /\ Len(trades') = Len(trades) + 1
                  /\ LastOf(trades').type = "BUY"
                  /\ LastOf(trades').quantity = quantity
    ]_vars

\* a Buy signal has been rejected for want of cash: still flat, no trade
C7_Witness ==
    /\ pc = "loop" /\ i >= 1 /\ signal = 1 /\ ret = "False"
    /\ IsZero(position) /\ trades = <<>> /\ balance = initial_balance

\* C8: a Sell signal while long appends one SELL of the whole position at
\* the close and leaves position 0; the next Buy signal after a sale is
\* accepted and opens a position again.
C8_SellAll ==
    [][ /\ (RowStep /\ signal' = -1 /\ RLt(Zero, position)) =>
              /\ Len(trades') = Len(trades) + 1
              /\ SubSeq(trades', 1, Len(trades)) = trades
              /\ LastOf(trades').type = "SELL"
              /\ LastOf(trades').quantity = position
              /\ LastOf(trades').price = NextClose
              /\ position' = Zero
        /\ (/\ RowStep /\ signal' = 1 /\ IsZero(position)
            /\ trades # <<>> /\ LastOf(trades).type = "SELL") =>
              /\ RLt(Zero, position')
              /\ Len(trades') = Len(trades) + 1
              /\ LastOf(trades').type = "BUY"
    ]_vars

\* the whole position was sold and a later Buy signal opened a new one
C8_Witness ==
    /\ Len(trades) = 3
    /\ trades[2].type = "SELL" /\ trades[2].quantity = trades[1].quantity
    /\ trades[3].type = "BUY" /\ position = trades[3].quantity

\* the number of ledger entries of a type
CountType(ty) == Cardinality({j \in 1..Len(trades) : trades[j].type = ty})

\* C9: the ledger alternates BUY, SELL, BUY, ... from a BUY; BUYs minus
\* SELLs is 1 when a position is held and 0 when not; a held position is
\* the quantity of the latest BUY.
C9_OneOpenPosition ==
    /\ \A j \in 1..Len(trades) :
          trades[j].type = (IF j % 2 = 1 THEN "BUY" ELSE "SELL")
    /\ CountType("BUY") - CountType("SELL") = (IF RLt(Zero, position) THEN 1 ELSE 0)
    /\ RLt(Zero, position) =>
          /\ LastOf(trades).type = "BUY"
          /\ position = LastOf(trades).quantity

\* a second position is open and Buy signals arrived while it was held
C9_Witness ==
    /\ Len(trades) = 3 /\ RLt(Zero, position) /\ signal = 1
    /\ LastOf(trades).timestamp # df[i].open_time

\* the engine as __init__ left it
EngineInitial ==
    /\ balance = initial_balance
    /\ IsZero(position)
    /\ IsZero(entry_price)
    /\ trades = <<>>
    /\ equity_curve = <<>>

\* C15: run_backtest on an empty series or on one whose timestamps are not
\* increasing fails before any mutation: it never returns normally, and
\* balance, position, ledger and equity curve stay in their initial state.
C15_FailFast ==
    (df = <<>> \/ ~Ascending) => (pc # "done" /\ EngineInitial)

----------------------------------------------------------------------------
(* Properties of buy() and sell() called directly (checked under SpecApi) *)

\* a step that is a call of the method op
CallStep(op) == ncalls' = ncalls + 1 /\ call'.op = op

\* C10: buy returns True exactly when quantity * price * (1 + commission)
\* <= balance; then balance falls by that cost, position rises by quantity,
\* entry_price is price and one BUY with price, quantity, cost and the new
\* balance is appended; else it returns False and nothing changes.
C10_Buy ==
    [][ CallStep("buy") =>
          LET cost == RMul(RMul(call'.quantity, call'.price),
                           RAdd(RInt(1), commission))
          IN /\ ret' \in {"True", "False"}
             /\ ret' = "True" <=> RLe(cost, balance)
             /\ ret' = "True" =>
                   /\ balance' = RSub(balance, cost)
                   /\ position' = RAdd(position, call'.quantity)
                   /\ entry_price' = call'.price
                   /\ trades' = Append(trades,
                         [type |-> "BUY", timestamp |-> call'.timestamp,
                          price |-> call'.price, quantity |-> call'.quantity,
                          cost |-> cost, balance |-> balance'])
             /\ ret' = "False" => EngineUnchanged
             /\ equity_curve' = equity_curve
    ]_vars

\* a buy that cost exactly the remaining balance succeeded, and the buy
\* after it was refused
C10_Witness ==
    /\ call.op = "buy" /\ ret = "False" /\ RLt(Zero, call.quantity)
    /\ IsZero(balance) /\ Len(trades) = 2
    /\ trades[1].type = "BUY" /\ trades[2].type = "BUY"

\* C11: a sell of no more than the position adds quantity * price *
\* (1 - commission) to the balance, takes quantity off the position, keeps
\* entry_price and appends one SELL whose profit is (price - entry_price) *
\* quantity, whose profit_pct is (price - entry_price) / entry_price * 100
\* and whose balance is the balance after the sale.
C11_Sell ==
    [][ (CallStep("sell") /\ RLe(call'.quantity, position)) =>
          LET revenue == RMul(RMul(call'.quantity, call'.price),
                              RSub(RInt(1), commission))
          IN /\ balance' = RAdd(balance, revenue)
             /\ position' = RSub(position, call'.quantity)
             /\ entry_price' = entry_price
             /\ Len(trades') = Len(trades) + 1
             /\ SubSeq(trades', 1, Len(trades)) = trades
             /\ LastOf(trades').type = "SELL"
             /\ LastOf(trades').price = call'.price
             /\ LastOf(trades').quantity = call'.quantity
             /\ LastOf(trades').revenue = revenue
             /\ LastOf(trades').profit =
                   RMul(RSub(call'.price, entry_price), call'.quantity)
             /\ ~IsZero(entry_price)
             /\ LastOf(trades').profit_pct =
                   RMul(RDiv(RSub(call'.price, entry_price), entry_price), RInt(100))
             /\ LastOf(trades').balance = balance'
    ]_vars

\* C12: a sell while no position is held returns False, raises nothing,
\* appends nothing and leaves balance, position and entry_price unchanged,
\* whatever the quantity and also on a new engine.
C12_SellFlat ==
    [][ (CallStep("sell") /\ IsZero(position)) =>
          /\ ret' = "False"
          /\ EngineUnchanged
    ]_vars

Sells == {j \in 1..Len(trades) : trades[j].type = "SELL"}
SellsWhere(sign) ==
    {j \in Sells : IF sign = 1 THEN RLt(Zero, trades[j].profit)
                   ELSE RLt(trades[j].profit, Zero)}

\* C14: get_performance_metrics returns the 'no trades' result exactly when
\* the ledger holds no SELL; otherwise total_trades is the number of SELLs,
\* winning_trades and losing_trades count the SELLs with profit > 0 and < 0
\* (together at most total_trades), win_rate = winning / total * 100, and
\* final_balance and final_position are the engine's balance and position.
C14_Metrics ==
    LET m == get_performance_metrics(self)
    IN /\ ("error" \in DOMAIN m) <=> (Sells = {})
       /\ (Sells # {}) =>
             /\ m.total_trades = Cardinality(Sells)
             /\ m.winning_trades = Cardinality(SellsWhere(1))
             /\ m.losing_trades = Cardinality(SellsWhere(-1))
             /\ m.winning_trades + m.losing_trades <= m.total_trades
             /\ m.win_rate = RMul(Rat(m.winning_trades, m.total_trades), RInt(100))
             /\ m.final_balance = balance
             /\ m.final_position = position

\* a sale at no profit is in the ledger: it is neither winning nor losing
C14_Witness ==
    /\ Sells # {}
    /\ \E j \in Sells : IsZero(trades[j].profit)
    /\ get_performance_metrics(self).winning_trades
         + get_performance_metrics(self).losing_trades
         < get_performance_metrics(self).total_trades

\* the ledger holds only a BUY that was never sold: the 'no trades' result
C14_WitnessUnmatched ==
    /\ Len(trades) = 1 /\ trades[1].type = "BUY"
    /\ "error" \in DOMAIN get_performance_metrics(self)

----------------------------------------------------------------------------
(* Properties of the cash account (checked under SpecApi) *)

\* initial_balance less the cost of the BUYs plus the revenue of the SELLs
\* among the first n trades
RECURSIVE CashAfter(_)
CashAfter(n) ==
    IF n = 0 THEN initial_balance
    ELSE IF trades[n].type = "BUY"
    THEN RSub(CashAfter(n - 1), trades[n].cost)
    ELSE RAdd(CashAfter(n - 1), trades[n].revenue)

\* the position held before the n-th trade, by the ledger
RECURSIVE PositionBefore(_)
PositionBefore(n) ==
    IF n = 1 THEN Zero
    ELSE IF trades[n - 1].type = "BUY"
    THEN RAdd(PositionBefore(n - 1), trades[n - 1].quantity)
    ELSE RSub(PositionBefore(n - 1), trades[n - 1].quantity)

RealizedProfit == RSum([k \in 1..Len(sell_trades(trades)) |-> sell_trades(trades)[k].profit])

CashIdentity ==
    /\ balance = CashAfter(Len(trades))
    /\ \A j \in 1..Len(trades) : trades[j].balance = CashAfter(j)

\* C25 as claimed: after any sequence of buy and sell calls the balance is
\* initial_balance - sum of cost of the BUYs + sum of revenue of the SELLs
\* and every trade records the balance right after it; with commission 0
\* and no position, balance = initial_balance + sum of profit of the SELLs.
C25_Accounting ==
    /\ CashIdentity
    /\ (IsZero(commission) /\ IsZero(position)) =>
          balance = RAdd(initial_balance, RealizedProfit)

\* every BUY of the ledger was made with no position held
BuysWhenFlat ==
    \A j \in 1..Len(trades) : trades[j].type = "BUY" => IsZero(PositionBefore(j))

\* C25 for the ledgers in which every BUY was made with no position held (as
\* in run_backtest): the identities hold.
C25_AccountingFlatBuys ==
    /\ CashIdentity
    /\ (IsZero(commission) /\ IsZero(position) /\ BuysWhenFlat) =>
          balance = RAdd(initial_balance, RealizedProfit)

----------------------------------------------------------------------------
(* Properties of the order size (checked under SpecCostly) *)

\* 0.95 * (1 + commission) > 1: an order of 95% of the balance costs more
\* than the balance
OrderExceedsBalance == RLt(RInt(1), RMul(Rat(95, 100), RAdd(RInt(1), commission)))

\* C26: when 0.95 * (1 + commission) > 1, every Buy signal of run_backtest is
\* rejected: the ledger stays empty, the engine stays FLAT with its balance
\* untouched, and every equity point equals initial_balance.
C26_BuysRejected ==
    OrderExceedsBalance =>
        /\ trades = <<>>
        /\ IsZero(position)
        /\ balance = initial_balance
        /\ \A k \in 1..Len(equity_curve) :
              equity_curve[k].portfolio_value = initial_balance
        /\ (i >= 1 /\ signal = 1) => ret = "False"

\* a run over several rows ended, its last signal a rejected Buy
C26_Witness ==
    /\ OrderExceedsBalance
    /\ pc = "done"
    /\ Len(equity_curve) >= 2
    /\ signal = 1 /\ ret = "False"
    /\ trades = <<>>

----------------------------------------------------------------------------
(* Properties of a run with a given strategy (checked under SpecStrategy) *)

\* the frames of the length of frame that agree with it on rows 1..t and
\* may differ in the closes after them
Alternatives(frame, t) ==
    { [k \in 1..Len(frame) |->
          IF k <= t THEN frame[k]
          ELSE [open_time |-> frame[k].open_time, close |-> c[k]]] :
      c \in [(t + 1)..Len(frame) -> Prices] }

\* the run over frame f2 gives, after i rows, the signal and engine of
\* the run at hand
SameRunOn(f2) ==
    LET r == run_backtest(BacktestEngine(initial_balance, commission),
                          f2, strategy_func, i)
    IN /\ r.signal = signal
       /\ r.eng = self

\* C13 as claimed: for any signal source, every series that agrees with the
\* series at hand on the rows processed so far gives the same signal and
\* the same engine state after them.
C13_NoLookahead ==
    (pc \in {"loop", "done"} /\ i >= 1) =>
        \A f2 \in Alternatives(df, i) : SameRunOn(f2)

\* C13 amended: the same, for signal sources that read no row after the
\* current one of the frame they are handed.
C13_NoLookaheadOfCausal ==
    (pc \in {"loop", "done"} /\ i >= 1 /\ strategy_func.look = 0) =>
        \A f2 \in Alternatives(df, i) : SameRunOn(f2)

\* a strategy reading up to the current row has traded in a series with
\* rows still to come
C13_Witness ==
    /\ strategy_func.look = 0 /\ pc = "loop" /\ i = 2 /\ Len(df) = 4
    /\ Len(trades) >= 1
    /\ Cardinality(Alternatives(df, i)) > 1

----------------------------------------------------------------------------
(* Properties of a replay (checked under SpecReplay) *)

\* no buy is refused under commission c: 0.95 * (1 + c) <= 1
NeverRefused(c) == RLe(RMul(Rat(95, 100), RAdd(RInt(1), c)), RInt(1))

\* C16 as claimed: at the end of the run the engine with the higher
\* commission has no higher balance than the engine with the lower one.
C16_CommissionMonotone ==
    (pc = "done" /\ twin # <<>>) => RLe(twin[1].balance, balance)

\* C16 amended: the same when the higher commission refuses no buy.
C16_CommissionMonotoneTraded ==
    (pc = "done" /\ twin # <<>> /\ NeverRefused(twin[1].commission)) =>
        RLe(twin[1].balance, balance)

\* both engines have traded and the run ended with their positions open
C16_Witness ==
    /\ pc = "done" /\ twin # <<>> /\ NeverRefused(twin[1].commission)
    /\ Len(trades) = 3 /\ Len(twin[1].trades) = 3
    /\ RLt(Zero, position) /\ RLt(Zero, twin[1].position)
    /\ RLt(twin[1].balance, balance)

----------------------------------------------------------------------------
(* Properties of the analytics (checked under SpecAnalytics) *)

\* a call of a function of the analyzer, after any number of calls before it
AnalyticsStep == pc = "analyzer" /\ pc' = "analyzer"

\* the result of the function called, computed on a frame built anew from
\* the engine's equity curve
ResultOf(c, eng) ==
    LET eq == AdvancedAnalytics(eng)
    IN CASE c.op = "calculate_sharpe_ratio" -> calculate_sharpe_ratio(eq)
         [] c.op = "calculate_sortino_ratio" -> calculate_sortino_ratio(eq)
         [] c.op = "calculate_max_drawdown" -> calculate_max_drawdown(eq)
         [] c.op = "drawdown_analysis" -> drawdown_analysis(eq)
         [] c.op = "performance_by_period" ->
                performance_by_period(eq, c.period).result

\* C17: every call of calculate_sharpe_ratio, calculate_sortino_ratio,
\* calculate_max_drawdown, performance_by_period and drawdown_analysis
\* leaves the engine's balance, position, entry_price, ledger and equity
\* curve and the analyzer's frame unchanged, and returns, whatever was
\* called before it, the result it gives on the frame as constructed.
C17_Pure ==
    [][ AnalyticsStep =>
          /\ EngineUnchanged
          /\ entry_price' = entry_price
          /\ equity_curve' = equity_curve
          /\ equity_df' = equity_df
          /\ equity_df = AdvancedAnalytics(self)
          /\ ret' = ResultOf(call', self)
    ]_vars

\* performance_by_period has been called on a curve of four points and
\* reports more than one period
C17_Witness ==
    /\ pc = "analyzer" /\ Len(equity_df) = 4
    /\ call.op = "performance_by_period"
    /\ Cardinality(DOMAIN ret) > 1
    /\ equity_df = AdvancedAnalytics(self)

\* the rows of the analyzer's frame
Rows == 1..Len(equity_df)

Declines == \E k \in Rows : k > 1 /\ RLt(equity_df[k].portfolio_value,
                                         equity_df[k - 1].portfolio_value)

RunningPeak(k) ==
    CHOOSE m \in {equity_df[j].portfolio_value : j \in 1..k} :
        \A j \in 1..k : RLe(equity_df[j].portfolio_value, m)

Drawdown(k) ==
    RDiv(RSub(equity_df[k].portfolio_value, RunningPeak(k)), RunningPeak(k))

\* C18: on a non-empty curve that declines at least once
\* calculate_max_drawdown returns the minimum over the rows of
\* (value - running peak) / running peak, as end the first row that attains
\* it, and as start a row at or before it whose value is the running peak
\* at the trough; on [100, 90, 80, 95] it returns -20% (-1/5), the row of
\* index 0 as start and the row of index 2 as end.
C18_MaxDrawdown ==
    [][ (AnalyticsStep /\ call'.op = "calculate_max_drawdown" /\ Declines) =>
          /\ ret'.kind = "tuple"
          /\ LET dd == [k \in Rows |-> Drawdown(k)]
             IN \E trough \in Rows, start \in Rows :
                   /\ start <= trough
                   /\ ret'.end_date = equity_df[trough].timestamp
                   /\ ret'.start_date = equity_df[start].timestamp
                   /\ \A k \in Rows : RLe(dd[trough], dd[k])
                   /\ \A k \in 1..(trough - 1) : dd[k] # dd[trough]
                   /\ ret'.max_dd = dd[trough]
                   /\ ret'.max_dd_pct = RMul(dd[trough], RInt(100))
                   /\ equity_df[start].portfolio_value = RunningPeak(trough)
          /\ portfolio_values_of(equity_df)
                = <<RInt(100), RInt(90), RInt(80), RInt(95)>> =>
                /\ ret'.max_dd = Rat(-1, 5)
                /\ ret'.max_dd_pct = RInt(-20)
                /\ ret'.start_date = equity_df[1].timestamp
                /\ ret'.end_date = equity_df[3].timestamp
    ]_vars

\* the minimum drawdown is attained twice and the first row is reported
C18_Witness ==
    /\ pc = "analyzer" /\ call.op = "calculate_max_drawdown"
    /\ portfolio_values_of(equity_df) = <<RInt(100), RInt(80), RInt(100), RInt(80)>>
    /\ ret.kind = "tuple"
    /\ ret.max_dd = Rat(-1, 5)
    /\ ret.end_date = equity_df[2].timestamp

\* the curve of the example
C18_WitnessExample ==
    /\ pc = "analyzer" /\ call.op = "calculate_max_drawdown"
    /\ portfolio_values_of(equity_df) = <<RInt(100), RInt(90), RInt(80), RInt(95)>>
    /\ ret.max_dd_pct = RInt(-20)

Constant == \A k \in Rows : equity_df[k].portfolio_value = equity_df[1].portfolio_value

ExcessReturn(k) ==
    RSub(RSub(RDiv(equity_df[k].portfolio_value, equity_df[k - 1].portfolio_value),
              RInt(1)), daily_risk_free)

\* C19: calculate_sharpe_ratio returns 0 when the curve has fewer than 2
\* points or all excess returns are equal, calculate_sortino_ratio returns
\* 0 under the same conditions or when no excess return is negative; a
\* constant equity curve of any length yields 0 for both.
C19_Degenerate ==
    [][ (AnalyticsStep /\ call'.op \in {"calculate_sharpe_ratio",
                                        "calculate_sortino_ratio"}) =>
          /\ Len(equity_df) < 2 => ret'.kind = "0"
          /\ (Len(equity_df) >= 3
                /\ \A k \in 2..Len(equity_df) : ExcessReturn(k) = ExcessReturn(2))
                => ret'.kind = "0"
          /\ (call'.op = "calculate_sortino_ratio"
                /\ \A k \in 2..Len(equity_df) : ~RLt(ExcessReturn(k), Zero))
                => ret'.kind = "0"
          /\ Constant => ret'.kind = "0"
    ]_vars

\* C20: on every equity curve of positive values calculate_sharpe_ratio,
\* calculate_sortino_ratio and calculate_max_drawdown return a defined
\* finite number: they neither raise nor return an undefined value.
C20_Defined ==
    [][ (AnalyticsStep /\ call'.op \in {"calculate_sharpe_ratio",
                                        "calculate_sortino_ratio",
                                        "calculate_max_drawdown"}) =>
          ret'.kind \in {"0", "finite", "tuple"}
    ]_vars

----------------------------------------------------------------------------
(* Properties of the periods (checked under SpecAnalytics) *)

PeriodStep == AnalyticsStep /\ call'.op = "performance_by_period"

\* the calendar bucket of the point of row k: its week, which ends on a
\* Sunday, or its month (day 0 is Thursday 1970-01-01, day 31 is the first
\* of February)
BucketOf(k, period) ==
    LET day == equity_df[k].timestamp
    IN IF period = "W" THEN CHOOSE w \in 0..8 : 7 * w - 3 <= day /\ day <= 7 * w + 3
       ELSE CHOOSE m \in 0..3 : <<0, 31, 59, 90>>[m + 1] <= day
                                /\ day < <<31, 59, 90, 120>>[m + 1]

\* the buckets of all rows
BucketsOf(period) == [k \in Rows |-> BucketOf(k, period)]

\* the first and the last row of bucket b
FirstOf(buckets, b) ==
    CHOOSE k \in Rows : buckets[k] = b /\ \A j \in 1..(k - 1) : buckets[j] # b
LastPointOf(buckets, b) ==
    CHOOSE k \in Rows : buckets[k] = b /\ \A j \in (k + 1)..Len(equity_df) : buckets[j] # b

\* (end_value - start_value) / start_value * 100 of a reported bucket
ReturnPct(row) ==
    RMul(RDiv(RSub(row.end_value, row.start_value), row.start_value), RInt(100))

\* C22 as claimed: performance_by_period reports exactly the calendar
\* buckets that hold an equity point, each point in one bucket, with
\* start_value and end_value the values of the bucket's first and last
\* point and return_pct = (end_value - start_value) / start_value * 100.
C22_Buckets ==
    [][ PeriodStep =>
          LET buckets == BucketsOf(call'.period)
          IN /\ DOMAIN ret' = {buckets[k] : k \in Rows}
             /\ \A b \in DOMAIN ret' :
                   /\ ret'[b].start_value
                         = equity_df[FirstOf(buckets, b)].portfolio_value
                   /\ ret'[b].end_value
                         = equity_df[LastPointOf(buckets, b)].portfolio_value
                   /\ ret'[b].return_pct = ReturnPct(ret'[b])
    ]_vars

\* r is x rounded to a multiple of 1 / scale: at most half of it away
Rounded(r, x, scale) ==
    /\ scale % r.d = 0
    /\ RLe(RSub(r, x), Rat(1, 2 * scale))
    /\ RLe(RSub(x, r), Rat(1, 2 * scale))

\* C22 amended: the same, with start_value and end_value those values
\* rounded to four decimals and return_pct the quotient rounded to two.
C22_BucketsRounded ==
    [][ PeriodStep =>
          LET buckets == BucketsOf(call'.period)
          IN /\ DOMAIN ret' = {buckets[k] : k \in Rows}
             /\ \A b \in DOMAIN ret' :
                   /\ Rounded(ret'[b].start_value,
                              equity_df[FirstOf(buckets, b)].portfolio_value, 10000)
                   /\ Rounded(ret'[b].end_value,
                              equity_df[LastPointOf(buckets, b)].portfolio_value, 10000)
                   /\ Rounded(ret'[b].return_pct, ReturnPct(ret'[b]), 100)
    ]_vars

\* two buckets of several points each, one with a return that has more
\* than two decimals
C22_Witness ==
    /\ pc = "analyzer" /\ call.op = "performance_by_period"
    /\ Cardinality(DOMAIN ret) = 2
    /\ \A b \in DOMAIN ret :
          FirstOf(BucketsOf(call.period), b) < LastPointOf(BucketsOf(call.period), b)
    /\ \E b \in DOMAIN ret : ret[b].return_pct # ReturnPct(ret[b])

\* the sum of the column periods over the buckets of a result
RECURSIVE SumPeriods(_, _)
SumPeriods(result, bs) ==
    IF bs = {} THEN 0
    ELSE LET b == CHOOSE x \in bs : TRUE
         IN result[b].periods + SumPeriods(result, bs \ {b})

\* C23: in every bucket returned by performance_by_period the column
\* periods is the number of equity points of the bucket, the bucket of the
\* first point of the curve included, so that the counts of all buckets add
\* up to the length of the equity curve.
C23_SampleCount ==
    [][ PeriodStep =>
          LET buckets == BucketsOf(call'.period)
          IN /\ \A b \in DOMAIN ret' :
                   ret'[b].periods = Cardinality({k \in Rows : buckets[k] = b})
             /\ SumPeriods(ret', DOMAIN ret') = Len(equity_df)
    ]_vars

\* the trough: the first row with the least drawdown
Trough ==
    LET dd == [k \in Rows |-> Drawdown(k)]
    IN CHOOSE t \in Rows : /\ \A k \in Rows : RLe(dd[t], dd[k])
                           /\ \A k \in 1..(t - 1) : dd[k] # dd[t]

\* the rows up to row t whose value is the running peak at row t
PeakRows(t) ==
    LET peak == RunningPeak(t)
    IN {k \in 1..t : equity_df[k].portfolio_value = peak}

MaxDrawdownStep ==
    AnalyticsStep /\ call'.op = "calculate_max_drawdown" /\ Declines

\* C24 as claimed: when several equity points up to the trough have the
\* value of the running peak (as in [100, 100, 80]), calculate_max_drawdown
\* reports the latest of them as the start of the drawdown.
C24_LatestPeak ==
    [][ MaxDrawdownStep =>
          LET rows == PeakRows(Trough)
          IN Cardinality(rows) >= 2 =>
                \E k \in rows : /\ \A j \in rows : j <= k
                                /\ ret'.start_date = equity_df[k].timestamp
    ]_vars

\* C24 amended: it reports the earliest of them.
C24_EarliestPeak ==
    [][ MaxDrawdownStep =>
          LET rows == PeakRows(Trough)
          IN Cardinality(rows) >= 2 =>
                \E k \in rows : /\ \A j \in rows : k <= j
                                /\ ret'.start_date = equity_df[k].timestamp
    ]_vars

\* [100, 100, 80]: the start reported is the first point
C24_Witness ==
    /\ pc = "analyzer" /\ call.op = "calculate_max_drawdown"
    /\ portfolio_values_of(equity_df) = <<RInt(100), RInt(100), RInt(80)>>
    /\ ret.kind = "tuple"
    /\ ret.start_date = equity_df[1].timestamp
    /\ ret.end_date = equity_df[3].timestamp

----------------------------------------------------------------------------
(* Properties of the drawdown analysis (checked under SpecDrawdown) *)

DrawdownPct(k) == RMul(Drawdown(k), RInt(100))

\* the point of row k is more than 0.1% below the running peak
InDrawdown(k) == RLt(DrawdownPct(k), Rat(-1, 10))

\* the maximal runs a..b of points in drawdown that a point not in drawdown
\* follows
ClosedRuns ==
    { r \in Rows \X Rows :
        /\ r[1] <= r[2]
        /\ \A k \in r[1]..r[2] : InDrawdown(k)
        /\ r[1] = 1 \/ ~InDrawdown(r[1] - 1)
        /\ r[2] < Len(equity_df) /\ ~InDrawdown(r[2] + 1) }

\* C21: drawdown_analysis returns, ordered in time and pairwise disjoint,
\* exactly one episode per maximal run of points more than 0.1% below the
\* running peak that is followed by a point not in drawdown, with start =
\* the run's first point, end = recovery = the run's last point and
\* max_drawdown_pct = the least drawdown of the run; a run that reaches the
\* final point gives no episode; two dips, each followed by a full
\* recovery, give exactly 2 episodes.
C21_Episodes ==
    [][ (AnalyticsStep /\ call'.op = "drawdown_analysis") =>
          /\ Len(ret') = Cardinality(ClosedRuns)
          /\ \A r \in ClosedRuns : \E j \in 1..Len(ret') :
                /\ ret'[j].start_date = equity_df[r[1]].timestamp
                /\ ret'[j].end_date = equity_df[r[2]].timestamp
                /\ ret'[j].recovery_date = equity_df[r[2]].timestamp
                /\ \E k \in r[1]..r[2] : ret'[j].max_drawdown_pct = DrawdownPct(k)
                /\ \A k \in r[1]..r[2] : RLe(ret'[j].max_drawdown_pct, DrawdownPct(k))
          /\ \A j \in 1..(Len(ret') - 1) : ret'[j].end_date < ret'[j + 1].start_date
          /\ \A j \in 1..Len(ret') : ret'[j].end_date < equity_df[Len(equity_df)].timestamp
          /\ portfolio_values_of(equity_df)
                = <<RInt(2000), RInt(1800), RInt(2000), RInt(1800), RInt(2000)>>
                => Len(ret') = 2
    ]_vars

\* two dips, each followed by a full recovery: 2 episodes
C21_Witness ==
    /\ pc = "analyzer" /\ call.op = "drawdown_analysis"
    /\ portfolio_values_of(equity_df)
          = <<RInt(2000), RInt(1800), RInt(2000), RInt(1800), RInt(2000)>>
    /\ Len(ret) = 2
    /\ ret[1].end_date < ret[2].start_date

\* a dip of 0.05% between two dips of 10%, the second one open at the end:
\* 1 episode
C21_WitnessShallow ==
    /\ pc = "analyzer" /\ call.op = "drawdown_analysis"
    /\ portfolio_values_of(equity_df)
          = <<RInt(2000), RInt(1800), RInt(1999), RInt(2000), RInt(1800)>>
    /\ Len(ret) = 1

====
